---- MODULE Spec2Model ----
(***************************************************************************)
(* Model of src/src/store/authStore.ts: the zustand store useAuthStore     *)
(* (session user, authentication flag, error, member roster), wrapped in   *)
(* the persist middleware, with its Socket.IO 'dataUpdate' listener.       *)
(*                                                                         *)
(* JavaScript runs every piece of code between two awaits atomically, so   *)
(* each action below is one such piece: the synchronous start of a call up *)
(* to its first await of the network, or the continuation that runs when   *)
(* what the call awaits settles (up to its next await or to its end).  A   *)
(* call that is waiting is a record in the set calls; its field slot tells *)
(* it from the other calls that wait, also from one in the same position   *)
(* with the same arguments.  A call that awaits get().fetchUsers() goes on *)
(* in a promise job of its own once fetchUsers has ended; until that job   *)
(* has run, only code that was queued before it runs (callbacks that call  *)
(* the store's synchronous operations or start new calls), no event and no *)
(* response of the network.                                                *)
(***************************************************************************)
EXTENDS Naturals, Sequences, FiniteSets

VARIABLES
    user,             \* state.user: a User without password, or null
    isAuthenticated,  \* state.isAuthenticated
    error,            \* state.error: a message, or nullMsg
    users,            \* state.users: the roster, a sequence of User
    storage,          \* localStorage entry under 'auth-storage', or null
    calls,            \* the calls awaiting a network response
    returned,         \* how the most recently completed call ended
    pendingAtLogout,  \* history: the login calls that were in flight
                      \* when logout last ran and still are, for as long
                      \* as the session has been anonymous since
    refreshMatched,   \* history: the login calls, resuming or completed
                      \* in the last step, whose refresh ended with a
                      \* roster that held a user with their credentials
    refreshFailed,    \* history: the addMember and updateMember calls,
                      \* resuming or completed in the last step, whose
                      \* refresh GET failed
    inFlight          \* history: for the removeMember calls that await
                      \* their DELETE or completed in the last step, the
                      \* roster that replaced the store's while they
                      \* waited and that the store held from then on

vars == <<user, isAuthenticated, error, users, storage, calls, returned,
          pendingAtLogout, refreshMatched, refreshFailed, inFlight>>

-----------------------------------------------------------------------------
(* Bounds of the model. *)

\* number of members the server holds, and so the length of the longest
\* roster the server or the push channel delivers
MaxRoster == 3

\* most calls awaiting the network at the same time
MaxCalls == 2

-----------------------------------------------------------------------------
(* Values. *)

\* JavaScript null, for object-valued fields
null == <<>>

\* JavaScript null, for the string-valued error field
nullMsg == "null"

\* Strings that are compared letter by letter are sequences of characters.
a_x_com == <<"a", "@", "x", ".", "c", "o", "m">>
A_X_com == <<"A", "@", "X", ".", "c", "o", "m">>
b_x_com == <<"b", "@", "x", ".", "c", "o", "m">>
c_x_com == <<"c", "@", "x", ".", "c", "o", "m">>
d_x_com == <<"d", "@", "x", ".", "c", "o", "m">>
e_x_com == <<"e", "@", "x", ".", "c", "o", "m">>

\* String.prototype.toLowerCase on one character
LowerChar(c) ==
    CASE c = "A" -> "a"
      [] c = "B" -> "b"
      [] c = "X" -> "x"
      [] OTHER -> c

\* String.prototype.toLowerCase
toLowerCase(s) == [i \in DOMAIN s |-> LowerChar(s[i])]

\* The user records the server may hold: members with an id and an email
\* of their own each, some of whom share a password.
Ann == [id |-> "1", name |-> "Ann", email |-> a_x_com, password |-> "p1",
        role |-> "admin"]
Bob == [id |-> "2", name |-> "Bob", email |-> b_x_com, password |-> "p2",
        role |-> "member"]
Cy == [id |-> "3", name |-> "Cy", email |-> c_x_com, password |-> "p1",
       role |-> "member"]

Di == [id |-> "4", name |-> "Di", email |-> d_x_com, password |-> "p2",
       role |-> "member"]

Members == <<Ann, Bob, Cy, Di>>

\* the members the server holds
Universe == {Members[i] : i \in 1..MaxRoster}

\* every roster value a GET response, a push event or setUsers may carry:
\* the server's list from any member on and around, as far as any length,
\* so each member stands in each place and none stands twice
Rosters ==
    {[k \in 1..n |-> Members[((i + k - 2) % MaxRoster) + 1]] :
        i \in 1..MaxRoster, n \in 0..MaxRoster}

\* id arguments the UI passes to updateMember and removeMember: the id of
\* Ann, who is the session user after a login and whom a roster may hold
\* in any place or not at all
Ids == {"1"}

\* LoginCredentials values the UI may pass to login: Ann's, with the email
\* in other letter case, and Bob's email with the password of Ann and Cy
Credentials ==
    {[email |-> A_X_com, password |-> "p1"],
     [email |-> b_x_com, password |-> "p1"]}

\* member arguments of addMember; the role is whatever the caller passes
NewMembers ==
    {[id |-> "5", name |-> "Eve", email |-> e_x_com, password |-> "p5",
      role |-> r] : r \in {"member", "admin"}}

\* updates arguments of updateMember
Updates == {[name |-> "Bea", email |-> e_x_com]}

\* users arguments of setUsers: the rosters of one user at most (the
\* longer ones arrive in GET responses and in push events)
SetUsersArguments == {r \in Rosters : Len(r) <= 1}

\* 'dataUpdate' events the socket delivers
Events ==
    {[type |-> "members", data |-> r] : r \in Rosters}
    \cup {[type |-> "gigs", data |-> <<>>]}

(* Network outcomes.  fetch() either rejects (a network error, with an     *)
(* Error) or fulfils with a response; response.json() either parses the    *)
(* body or rejects.                                                        *)

\* message of the TypeError a rejected fetch() carries
NetworkErrorMessage == "Failed to fetch"

\* outcome of awaiting fetch(GET /members) and then response.json(): the
\* fetch rejects, or fulfils with a response that is 2xx or not, and the
\* body of a 2xx response parses or not.  A call in position "GET" awaits
\* the fetch, a call in position "BODY" awaits response.json().
GetOutcomes ==
    {[rejected |-> TRUE, ok |-> FALSE, parses |-> FALSE, json |-> <<>>],
     [rejected |-> FALSE, ok |-> FALSE, parses |-> FALSE, json |-> <<>>],
     [rejected |-> FALSE, ok |-> TRUE, parses |-> FALSE, json |-> <<>>]}
    \cup {[rejected |-> FALSE, ok |-> TRUE, parses |-> TRUE, json |-> r] :
            r \in Rosters}

\* outcome of awaiting fetch(POST /members) or fetch(PUT /members/id)
MutateOutcomes ==
    {[rejected |-> TRUE, ok |-> FALSE], [rejected |-> FALSE, ok |-> FALSE],
     [rejected |-> FALSE, ok |-> TRUE]}

\* bodies of a DELETE response after response.json().catch(() => null)
DeleteData ==
    {null, [success |-> "true"], [error |-> ""],
     [error |-> "Member not found"]}

\* outcome of awaiting fetch(DELETE /members/id) and then the response's
\* data.  A call in position "DELETE" awaits the fetch, a call in position
\* "BODY" awaits response.json().catch(() => null).
DeleteOutcomes ==
    {[rejected |-> TRUE, ok |-> FALSE, data |-> null]}
    \cup [rejected : {FALSE}, ok : BOOLEAN, data : DeleteData]

-----------------------------------------------------------------------------
(* The persist middleware.  Every set() of the store is followed by a      *)
(* write of the partialized state under the key 'auth-storage'.            *)

\* the store's state as one object
State(u, a, e, us) ==
    [user |-> u, isAuthenticated |-> a, error |-> e, users |-> us]

\* partialize, were the whole state persisted
partializeWhole(state) == state

\* persist option partialize
partialize(state) ==
    [user |-> state.user, isAuthenticated |-> state.isAuthenticated]

\* the entry persist serializes: the partialized state and the version
StorageEntry(state) == [state |-> partialize(state), version |-> 0]

\* localStorage.setItem('auth-storage', entry)
setItem(st, entry) == entry

\* localStorage.removeItem('auth-storage')
removeItem(st) == null

\* set({...}) through persist, on a localStorage holding st: the new state,
\* and then the write of its persisted slice
SetOn(st, u, a, e, us) ==
    /\ user' = u
    /\ isAuthenticated' = a
    /\ error' = e
    /\ users' = us
    /\ storage' = setItem(st, StorageEntry(State(u, a, e, us)))

Set(u, a, e, us) == SetOn(storage, u, a, e, us)

\* the destructuring, were the password left in
WithPassword(u) == u

\* the destructuring, were the password blanked and its field kept
WithBlankPassword(u) == [u EXCEPT !.password = ""]

\* object rest destructuring { password: _, ...rest }
WithoutPassword(u) == [f \in DOMAIN u \ {"password"} |-> u[f]]

\* object spread { ...u, ...updates }
Spread(u, updates) ==
    [f \in DOMAIN u \cup DOMAIN updates |->
        IF f \in DOMAIN updates THEN updates[f] ELSE u[f]]

\* Array.prototype.find, given the set of the indices whose element
\* satisfies the predicate: the first of them, or 0 when there is none
FindIndex(satisfying) ==
    IF satisfying = {} THEN 0
    ELSE CHOOSE i \in satisfying : \A j \in satisfying : i <= j

\* login's predicate, were the emails compared as they are
MatchesCaseSensitive(u, email, password) ==
    /\ u.email = email
    /\ u.password = password

\* login's predicate, were the password not compared
MatchesEmailOnly(u, email, password) ==
    toLowerCase(u.email) = toLowerCase(email)

\* login's predicate: email equal ignoring case, password equal exactly
Matches(u, email, password) ==
    /\ toLowerCase(u.email) = toLowerCase(email)
    /\ u.password = password

\* u.email.toLowerCase() throws on a record without an email; find visits
\* the elements in order up to the first match
FindThrows(us, email, password) ==
    \E i \in DOMAIN us :
        /\ "email" \notin DOMAIN us[i]
        /\ \A j \in 1..(i - 1) :
              "email" \in DOMAIN us[j] /\ ~Matches(us[j], email, password)

\* getUsers: () => get().users.map(({ password: _, ...user }) => user)
getUsersValue(us) == [i \in DOMAIN us |-> WithoutPassword(us[i])]

\* the removal, were the users it keeps collected last one first
FilterOutPrepending(us, id) ==
    LET Keep(u) == u.id # id
        kept == SelectSeq(us, Keep)
    IN  [k \in DOMAIN kept |-> kept[Len(kept) + 1 - k]]

\* the removal, were its test === in place of !==
FilterOutOthers(us, id) ==
    LET Keep(u) == u.id = id IN SelectSeq(us, Keep)

\* state.users.filter((user) => user.id !== id)
FilterOut(us, id) ==
    LET Keep(u) == u.id # id IN SelectSeq(us, Keep)

\* fetchUsers' try block succeeds: response.ok and a body that parses
GetSucceeded(o) == ~o.rejected /\ o.ok /\ o.parses

\* state.users, were fetchUsers' catch block to empty the roster
UsersAfterGetCleared(o, us) == IF GetSucceeded(o) THEN o.json ELSE <<>>

\* state.users, were a response to fill only a roster that is still empty
UsersAfterGetIfEmpty(o, us) ==
    IF GetSucceeded(o) /\ us = <<>> THEN o.json ELSE us

\* state.users after fetchUsers settled with outcome o
UsersAfterGet(o, us) == IF GetSucceeded(o) THEN o.json ELSE us

\* state.error, were fetchUsers' catch block to log only
ErrorAfterGetLogOnly(o, e) == e

\* state.error, were a successful fetchUsers to reset it
ErrorAfterGetResets(o, e) ==
    IF GetSucceeded(o) THEN nullMsg ELSE "Failed to fetch users"

\* state.error after fetchUsers settled with outcome o
ErrorAfterGet(o, e) == IF GetSucceeded(o) THEN e ELSE "Failed to fetch users"

\* the thrown message, were the response's data ignored
DeleteErrorMessageFixed(data) == "Failed to remove member"

\* data?.error || 'Failed to remove member'
DeleteErrorMessage(data) ==
    IF data # null /\ "error" \in DOMAIN data /\ data.error # ""
    THEN data.error
    ELSE "Failed to remove member"

\* the value removeMember's catch block receives, if any
DeleteThrown(o) ==
    IF o.rejected
    THEN [instanceOfError |-> TRUE, message |-> NetworkErrorMessage]
    ELSE [instanceOfError |-> TRUE, message |-> DeleteErrorMessage(o.data)]

-----------------------------------------------------------------------------
\* What localStorage may hold under 'auth-storage' when the store is
\* created: nothing, or the entry an earlier page of this store wrote,
\* after a logout or after a login (as Ann: the store never looks at who
\* the session user is).
StoredAtStart ==
    {null, StorageEntry(State(null, FALSE, nullMsg, <<>>)),
     StorageEntry(State(WithoutPassword(Ann), TRUE, nullMsg, <<>>))}

\* The state after create(persist(...)): the initial state of lines 37-40,
\* with the persisted slice, if there is one, merged over it.
Init ==
    /\ storage \in StoredAtStart
    /\ user = IF storage = null THEN null ELSE storage.state.user
    /\ isAuthenticated =
          IF storage = null THEN FALSE ELSE storage.state.isAuthenticated
    /\ error = nullMsg
    /\ users = <<>>
    /\ calls = {}
    /\ returned = [op |-> "none", threw |-> FALSE]
    /\ pendingAtLogout = {}
    /\ refreshMatched = {}
    /\ refreshFailed = {}
    /\ inFlight = {}

\* the slot a call that starts now takes: the lowest that no waiting call
\* holds (0 when MaxCalls calls wait)
FreeSlot ==
    LET free == {n \in 1..MaxCalls : \A c \in calls : c.slot # n}
    IN  IF free = {} THEN 0
        ELSE CHOOSE n \in free : \A m \in free : n <= m

\* A call reaches its first await of the network.
Await(c) ==
    /\ Cardinality(calls) < MaxCalls
    /\ calls' = calls \cup {c}

\* the position in which a call awaits what settles with GET outcome o:
\* the fetch, unless it fulfilled with a 2xx response, and then the body
GetPosition(o) == IF ~o.rejected /\ o.ok THEN "BODY" ELSE "GET"

\* the position in which a removeMember call awaits what settles with
\* DELETE outcome o: the fetch when it rejects, and else the body
DeletePosition(o) == IF o.rejected THEN "DELETE" ELSE "BODY"

\* No call waits, its fetchUsers ended, for the promise job that resumes
\* it: the job queue is empty, so the event loop may deliver an event or a
\* response.
NoJobQueued == \A c \in calls : c.pc # "RESUME"

\* A call awaiting in position c goes on to await in position d.
AwaitNext(c, d) == calls' = (calls \ {c}) \cup {d}

\* setUsers: (users) => set({ users })
setUsers(us) ==
    /\ Set(user, isAuthenticated, error, us)
    /\ returned' = [op |-> "setUsers", threw |-> FALSE]
    /\ UNCHANGED calls

\* the listener, were it to merge the payload into the roster
dataUpdateMerges(type, data) ==
    /\ NoJobQueued
    /\ IF type = "members"
       THEN Set(user, isAuthenticated, error, users \o data)
       ELSE UNCHANGED <<user, isAuthenticated, error, users, storage>>
    /\ returned' = [op |-> "dataUpdate", threw |-> FALSE, type |-> type]
    /\ UNCHANGED calls

\* socket.on('dataUpdate', ({ type, data }) => ...)
dataUpdate(type, data) ==
    /\ NoJobQueued
    /\ IF type = "members"
       THEN Set(user, isAuthenticated, error, data)
       ELSE UNCHANGED <<user, isAuthenticated, error, users, storage>>
    /\ returned' = [op |-> "dataUpdate", threw |-> FALSE, type |-> type]
    /\ UNCHANGED calls

\* clearError: () => set({ error: null })
clearError ==
    /\ Set(user, isAuthenticated, nullMsg, users)
    /\ returned' = [op |-> "clearError", threw |-> FALSE]
    /\ UNCHANGED calls

\* getUsers
getUsers ==
    /\ returned' = [op |-> "getUsers", threw |-> FALSE,
                    list |-> getUsersValue(users)]
    /\ UNCHANGED <<user, isAuthenticated, error, users, storage, calls>>

\* logout: removeItem, then set(...), which persist follows with a write,
\* then the navigation it asks for
logout ==
    /\ SetOn(removeItem(storage), null, FALSE, nullMsg, <<>>)
    /\ returned' = [op |-> "logout", threw |-> FALSE, href |-> "/"]
    /\ UNCHANGED calls

\* fetchUsers, up to await fetch(...)
fetchUsers ==
    /\ Await([op |-> "fetchUsers", pc |-> "GET", slot |-> FreeSlot])
    /\ UNCHANGED <<user, isAuthenticated, error, users, storage,
                   returned>>

\* fetchUsers, called directly or by login, addMember or updateMember:
\* from the fetch that fulfilled with a 2xx response to await
\* response.json()
fetchUsersResponded(c) ==
    /\ NoJobQueued
    /\ c \in calls /\ c.pc = "GET"
    /\ AwaitNext(c, [c EXCEPT !.pc = "BODY"])
    /\ UNCHANGED <<user, isAuthenticated, error, users, storage,
                   returned>>

\* fetchUsersSettled, were a failed fetch to end the session as well
fetchUsersSettledDropsSession(c, o) ==
    /\ NoJobQueued
    /\ c \in calls /\ c.op = "fetchUsers" /\ c.pc = GetPosition(o)
    /\ IF GetSucceeded(o)
       THEN Set(user, isAuthenticated, error, o.json)
       ELSE Set(null, FALSE, "Failed to fetch users", users)
    /\ calls' = calls \ {c}
    /\ returned' = [op |-> "fetchUsers", threw |-> FALSE]

\* fetchUsers, from the settled fetch or body to its end
fetchUsersSettled(c, o) ==
    /\ NoJobQueued
    /\ c \in calls /\ c.op = "fetchUsers" /\ c.pc = GetPosition(o)
    /\ Set(user, isAuthenticated, ErrorAfterGet(o, error),
           UsersAfterGet(o, users))
    /\ calls' = calls \ {c}
    /\ returned' = [op |-> "fetchUsers", threw |-> FALSE]

\* login, up to the await fetch(...) of its fetchUsers
login(credentials) ==
    /\ Await([op |-> "login", pc |-> "GET", slot |-> FreeSlot,
              email |-> credentials.email,
              password |-> credentials.password])
    /\ UNCHANGED <<user, isAuthenticated, error, users, storage,
                   returned>>

\* loginFetched, were fetchUsers to rethrow its failure into login's catch
loginFetchedRethrows(c, o) ==
    /\ NoJobQueued
    /\ c \in calls /\ c.op = "login" /\ c.pc = GetPosition(o)
    /\ IF GetSucceeded(o)
       THEN /\ Set(user, isAuthenticated, error, o.json)
            /\ AwaitNext(c, [c EXCEPT !.pc = "RESUME"])
            /\ UNCHANGED returned
       ELSE /\ Set(user, isAuthenticated, "Login failed. Please try again.",
                   users)
            /\ calls' = calls \ {c}
            /\ returned' = [op |-> "login", threw |-> FALSE,
                            value |-> FALSE]

\* login's fetchUsers, from the settled GET to its end; login then waits
\* for the promise job that resumes it
loginFetched(c, o) ==
    /\ NoJobQueued
    /\ c \in calls /\ c.op = "login" /\ c.pc = GetPosition(o)
    /\ Set(user, isAuthenticated, ErrorAfterGet(o, error),
           UsersAfterGet(o, users))
    /\ AwaitNext(c, [c EXCEPT !.pc = "RESUME"])
    /\ UNCHANGED returned

\* login, from after await get().fetchUsers() to its end
loginSettled(c) ==
    /\ c \in calls /\ c.op = "login" /\ c.pc = "RESUME"
    /\ LET i == FindIndex({k \in DOMAIN users :
                              Matches(users[k], c.email, c.password)})
       IN  IF FindThrows(users, c.email, c.password)
           THEN /\ Set(user, isAuthenticated,
                       "Login failed. Please try again.", users)
                /\ returned' = [op |-> "login", threw |-> FALSE,
                                value |-> FALSE]
           ELSE IF i # 0
           THEN /\ Set(WithoutPassword(users[i]), TRUE, nullMsg, users)
                /\ returned' = [op |-> "login", threw |-> FALSE,
                                value |-> TRUE]
           ELSE /\ Set(user, isAuthenticated, "Invalid email or password",
                       users)
                /\ returned' = [op |-> "login", threw |-> FALSE,
                                value |-> FALSE]
    /\ calls' = calls \ {c}

\* addMember, up to await fetch(..., POST)
addMember(member) ==
    /\ Await([op |-> "addMember", pc |-> "POST", slot |-> FreeSlot,
              body |-> member])
    /\ UNCHANGED <<user, isAuthenticated, error, users, storage,
                   returned>>

\* addMemberPosted, were response.ok not looked at
addMemberPostedUnchecked(c, o) ==
    /\ NoJobQueued
    /\ c \in calls /\ c.op = "addMember" /\ c.pc = "POST"
    /\ IF ~o.rejected
       THEN /\ AwaitNext(c, [op |-> "addMember", pc |-> "GET",
                              slot |-> c.slot])
            /\ UNCHANGED <<user, isAuthenticated, error, users, storage,
                           returned>>
       ELSE /\ Set(user, isAuthenticated, "Failed to add member", users)
            /\ calls' = calls \ {c}
            /\ returned' = [op |-> "addMember", threw |-> FALSE]

\* addMember, from the settled POST to the await of its fetchUsers, or to
\* its catch block
addMemberPosted(c, o) ==
    /\ NoJobQueued
    /\ c \in calls /\ c.op = "addMember" /\ c.pc = "POST"
    /\ IF ~o.rejected /\ o.ok
       THEN /\ AwaitNext(c, [op |-> "addMember", pc |-> "GET",
                              slot |-> c.slot])
            /\ UNCHANGED <<user, isAuthenticated, error, users, storage,
                           returned>>
       ELSE /\ Set(user, isAuthenticated, "Failed to add member", users)
            /\ calls' = calls \ {c}
            /\ returned' = [op |-> "addMember", threw |-> FALSE]

\* addMember's fetchUsers, from the settled GET to its end; addMember then
\* waits for the promise job that resumes it
addMemberFetched(c, o) ==
    /\ NoJobQueued
    /\ c \in calls /\ c.op = "addMember" /\ c.pc = GetPosition(o)
    /\ Set(user, isAuthenticated, ErrorAfterGet(o, error),
           UsersAfterGet(o, users))
    /\ AwaitNext(c, [c EXCEPT !.pc = "RESUME"])
    /\ UNCHANGED returned

\* addMember, from after await get().fetchUsers() to its end
addMemberSettled(c) ==
    /\ c \in calls /\ c.op = "addMember" /\ c.pc = "RESUME"
    /\ calls' = calls \ {c}
    /\ returned' = [op |-> "addMember", threw |-> FALSE]
    /\ UNCHANGED <<user, isAuthenticated, error, users, storage>>

\* updateMember, were it to return at once when the id is not in the roster
updateMemberSilent(id, updates) ==
    LET i == FindIndex({k \in DOMAIN users : users[k].id = id})
    IN  /\ IF i # 0
           THEN /\ Await([op |-> "updateMember", pc |-> "PUT",
                          slot |-> FreeSlot, id |-> id,
                          body |-> Spread(users[i], updates)])
                /\ UNCHANGED <<user, isAuthenticated, error, users, storage,
                               returned>>
           ELSE /\ returned' = [op |-> "updateMember", threw |-> FALSE]
                /\ UNCHANGED <<user, isAuthenticated, error, users, storage,
                               calls>>

\* updateMember, up to await fetch(..., PUT), or to its catch block when
\* the id is not in the roster
updateMember(id, updates) ==
    LET i == FindIndex({k \in DOMAIN users : users[k].id = id})
    IN  /\ IF i # 0
           THEN /\ Await([op |-> "updateMember", pc |-> "PUT",
                          slot |-> FreeSlot, id |-> id,
                          body |-> Spread(users[i], updates)])
                /\ UNCHANGED <<user, isAuthenticated, error, users, storage,
                               returned>>
           ELSE /\ Set(user, isAuthenticated, "Failed to update member",
                       users)
                /\ returned' = [op |-> "updateMember", threw |-> FALSE]
                /\ UNCHANGED calls

\* updateMember, from the settled PUT to the await of its fetchUsers, or
\* to its catch block
updateMemberPut(c, o) ==
    /\ NoJobQueued
    /\ c \in calls /\ c.op = "updateMember" /\ c.pc = "PUT"
    /\ IF ~o.rejected /\ o.ok
       THEN /\ AwaitNext(c, [op |-> "updateMember", pc |-> "GET",
                              slot |-> c.slot])
            /\ UNCHANGED <<user, isAuthenticated, error, users, storage,
                           returned>>
       ELSE /\ Set(user, isAuthenticated, "Failed to update member", users)
            /\ calls' = calls \ {c}
            /\ returned' = [op |-> "updateMember", threw |-> FALSE]

\* updateMember's fetchUsers, from the settled GET to its end; updateMember then
\* waits for the promise job that resumes it
updateMemberFetched(c, o) ==
    /\ NoJobQueued
    /\ c \in calls /\ c.op = "updateMember" /\ c.pc = GetPosition(o)
    /\ Set(user, isAuthenticated, ErrorAfterGet(o, error),
           UsersAfterGet(o, users))
    /\ AwaitNext(c, [c EXCEPT !.pc = "RESUME"])
    /\ UNCHANGED returned

\* updateMember, from after await get().fetchUsers() to its end
updateMemberSettled(c) ==
    /\ c \in calls /\ c.op = "updateMember" /\ c.pc = "RESUME"
    /\ calls' = calls \ {c}
    /\ returned' = [op |-> "updateMember", threw |-> FALSE]
    /\ UNCHANGED <<user, isAuthenticated, error, users, storage>>

\* removeMember, up to await fetch(..., DELETE)
removeMember(id) ==
    /\ Await([op |-> "removeMember", pc |-> "DELETE", slot |-> FreeSlot,
              id |-> id])
    /\ UNCHANGED <<user, isAuthenticated, error, users, storage,
                   returned>>

\* removeMember, from the fetch that fulfilled with a response, 2xx or
\* not, to await response.json().catch(() => null)
removeMemberResponded(c) ==
    /\ NoJobQueued
    /\ c \in calls /\ c.op = "removeMember" /\ c.pc = "DELETE"
    /\ AwaitNext(c, [c EXCEPT !.pc = "BODY"])
    /\ UNCHANGED <<user, isAuthenticated, error, users, storage,
                   returned>>

\* removeMember, from the settled fetch or body to its end
removeMemberSettled(c, o) ==
    /\ NoJobQueued
    /\ c \in calls /\ c.op = "removeMember" /\ c.pc = DeletePosition(o)
    /\ IF ~o.rejected /\ o.ok
       THEN /\ Set(user, isAuthenticated, nullMsg, FilterOut(users, c.id))
            /\ returned' = [op |-> "removeMember", threw |-> FALSE]
       ELSE LET thrown == DeleteThrown(o)
            IN  /\ Set(user, isAuthenticated,
                       IF thrown.instanceOfError THEN thrown.message
                       ELSE "Failed to remove member", users)
                /\ returned' = [op |-> "removeMember", threw |-> TRUE,
                                message |-> thrown.message]
    /\ calls' = calls \ {c}

-----------------------------------------------------------------------------
(* The history variables.  They record what the claims speak of and the   *)
(* store does not keep; no step of the store reads them.                  *)

\* user u has the email (ignoring case) and the password of call c
HasCredentials(u, c) ==
    /\ toLowerCase(u.email) = toLowerCase(c.email)
    /\ u.password = c.password

\* pendingAtLogout after a step other than logout: each recorded login is
\* followed to its next position and forgotten when it completes, and all
\* are forgotten once the session is authenticated (from then on only the
\* next logout matters)
FollowedLogins ==
    IF isAuthenticated' THEN {}
    ELSE {d \in calls' :
            \/ d \in pendingAtLogout
            \/ /\ d \notin calls
               /\ \E c \in pendingAtLogout : c.slot = d.slot}

\* the notes on the calls that were pending before the step: a note stays
\* for one step after its call has completed
Noted(notes) == notes \cap calls

\* the calls that this step brings to the position "RESUME"
NowResuming == {d \in calls' \ calls : d.pc = "RESUME"}

\* inFlight after a step that puts a roster in place: every removeMember
\* call that awaits its DELETE has seen the roster replaced
Replaced(by) ==
    {[call |-> c, by |-> by, roster |-> users'] :
        c \in {d \in calls' : d.op = "removeMember"}}

\* call c after the step: in its next position, when the step brings it
\* to one
Moved(c) ==
    IF \E d \in calls' \ calls : d.slot = c.slot
    THEN CHOOSE d \in calls' \ calls : d.slot = c.slot
    ELSE c

\* inFlight after a step that leaves the roster alone
NotReplaced ==
    {[h EXCEPT !.call = Moved(h.call)] :
        h \in {g \in inFlight : g.call \in calls}}

\* the history after a step that brings no call to "RESUME"
NoRefreshEnds ==
    /\ pendingAtLogout' = FollowedLogins
    /\ refreshMatched' = Noted(refreshMatched)
    /\ refreshFailed' = Noted(refreshFailed)

\* the history after the step in which a GET settled with outcome o
RefreshEnds(o) ==
    /\ pendingAtLogout' = FollowedLogins
    /\ refreshMatched' =
          Noted(refreshMatched)
          \cup {d \in NowResuming :
                  /\ d.op = "login"
                  /\ \E i \in DOMAIN users' : HasCredentials(users'[i], d)}
    /\ refreshFailed' =
          Noted(refreshFailed)
          \cup {d \in NowResuming :
                  /\ d.op \in {"addMember", "updateMember"}
                  /\ ~GetSucceeded(o)}
    /\ inFlight' = IF GetSucceeded(o) THEN Replaced("response")
                   ELSE NotReplaced

-----------------------------------------------------------------------------
\* the steps that neither write the roster nor end a fetchUsers or a
\* removeMember
OtherSteps ==
    \/ clearError
    \/ getUsers
    \/ fetchUsers
    \/ \E c \in calls : fetchUsersResponded(c)
    \/ \E cr \in Credentials : login(cr)
    \/ \E c \in calls : loginSettled(c)
    \/ \E m \in NewMembers : addMember(m)
    \/ \E c \in calls, o \in MutateOutcomes : addMemberPosted(c, o)
    \/ \E c \in calls : addMemberSettled(c)
    \/ \E id \in Ids, up \in Updates : updateMember(id, up)
    \/ \E c \in calls, o \in MutateOutcomes : updateMemberPut(c, o)
    \/ \E c \in calls : updateMemberSettled(c)
    \/ \E id \in Ids : removeMember(id)
    \/ \E c \in calls : removeMemberResponded(c)

\* The steps of the store, each with what it adds to the history.
Next ==
    \/ /\ logout
       /\ pendingAtLogout' = {c \in calls : c.op = "login"}
       /\ refreshMatched' = Noted(refreshMatched)
       /\ refreshFailed' = Noted(refreshFailed)
       /\ inFlight' = {}
    \/ /\ \E us \in SetUsersArguments : setUsers(us)
       /\ NoRefreshEnds
       /\ inFlight' = Replaced("setUsers")
    \/ \E ev \in Events :
          /\ dataUpdate(ev.type, ev.data)
          /\ NoRefreshEnds
          /\ inFlight' = IF ev.type = "members" THEN Replaced("event")
                         ELSE NotReplaced
    \/ \E c \in calls, o \in GetOutcomes :
          /\ \/ fetchUsersSettled(c, o)
             \/ loginFetched(c, o)
             \/ addMemberFetched(c, o)
             \/ updateMemberFetched(c, o)
          /\ RefreshEnds(o)
    \/ \E c \in calls, o \in DeleteOutcomes :
          /\ removeMemberSettled(c, o)
          /\ NoRefreshEnds
          /\ inFlight' = IF ~o.rejected /\ o.ok
                         THEN {h \in inFlight : h.call = c}
                         ELSE {h \in inFlight : h.call \in calls'}
    \/ /\ OtherSteps
       /\ NoRefreshEnds
       /\ inFlight' = NotReplaced

Spec == Init /\ [][Next]_vars

-----------------------------------------------------------------------------
(* Steps the claims speak of.  A step that resumes a pending call takes  *)
(* it out of calls, and puts it back in its next position when it goes on *)
(* to await again.  A fetchUsers or removeMember call completes in the    *)
(* step that resumes it and ends it; a login, addMember or updateMember   *)
(* call completes in the step that resumes it from the position "RESUME". *)

\* the pending calls that this step resumes
Resumed == calls \ calls'

\* call c is a login that this step completes
LoginCompletes(c) == c \in Resumed /\ c.op = "login" /\ c.pc = "RESUME"

\* a login call completes, and some user of the roster it searches has
\* the email (ignoring case) and the password of its credentials
LoginMatchStep ==
    \E c \in Resumed :
        /\ LoginCompletes(c)
        /\ \E i \in DOMAIN users' : HasCredentials(users'[i], c)

\* a login call completes, and no user of the roster it searches has the
\* email (ignoring case) and the password of its credentials
LoginNoMatchStep ==
    \E c \in Resumed :
        /\ LoginCompletes(c)
        /\ \A i \in DOMAIN users' : ~HasCredentials(users'[i], c)

-----------------------------------------------------------------------------
\* C1: the session is a two-state machine.  isAuthenticated goes from
\* false to true only in a step where a login completes with a credential
\* match, from true to false only in a logout step, and a step that is
\* neither of the two changes neither isAuthenticated nor user.
SessionStateMachine ==
    [][/\ (~isAuthenticated /\ isAuthenticated') => LoginMatchStep
       /\ (isAuthenticated /\ ~isAuthenticated') => logout
       /\ (user' # user \/ isAuthenticated' # isAuthenticated) =>
             (LoginMatchStep \/ logout)]_vars

\* C1 witness: a login has completed with a match and the session is
\* authenticated
SessionStateMachineWitness ==
    /\ returned.op = "login"
    /\ returned.value
    /\ isAuthenticated
    /\ user # null

\* C2 as claimed: once logout has completed, user is null, isAuthenticated
\* is false, users is empty, error is null and localStorage holds no entry
\* under the store's key.
LogoutClearsStorage ==
    returned.op = "logout" =>
        /\ user = null
        /\ isAuthenticated = FALSE
        /\ users = <<>>
        /\ error = nullMsg
        /\ storage = null

\* C3: the persisted entry, once written, holds exactly the fields user
\* and isAuthenticated with the values of the session, and its session
\* changes only in a step where a login completes with a match or in a
\* logout step (so never by a roster replacement, a failure or an error
\* change).
PersistedSession ==
    /\ [](storage # null =>
            /\ DOMAIN storage.state = {"user", "isAuthenticated"}
            /\ storage.state.user = user
            /\ storage.state.isAuthenticated = isAuthenticated)
    /\ [][(storage # null /\ storage' # storage) =>
            (LoginMatchStep \/ logout)]_vars

\* C3 witness: a persisted authenticated session, the roster since
\* replaced by one that no longer holds the session's user, and an error
PersistedSessionWitness ==
    /\ storage # null
    /\ storage.state.isAuthenticated
    /\ storage.state.user # null
    /\ \A i \in DOMAIN users : users[i].id # storage.state.user.id
    /\ users # <<>>
    /\ error # nullMsg
    /\ returned.op \in {"fetchUsers", "removeMember"}

-----------------------------------------------------------------------------
(* What the claims say of records and rosters, in their own words. *)

\* the GET of a fetchUsers failed: network error, non-2xx, or no JSON
GetFailed(o) == o.rejected \/ ~o.ok \/ ~o.parses

\* the POST, PUT or DELETE failed: network error or non-2xx
RequestFailed(o) == o.rejected \/ ~o.ok

\* the outcomes that are failures
FailedGetOutcomes == {o \in GetOutcomes : GetFailed(o)}

FailedMutateOutcomes == {o \in MutateOutcomes : RequestFailed(o)}

FailedDeleteOutcomes == {o \in DeleteOutcomes : RequestFailed(o)}

\* r is the record u without its password field
IsRecordWithoutPassword(r, u) ==
    /\ DOMAIN r = DOMAIN u \ {"password"}
    /\ \A f \in DOMAIN r : r[f] = u[f]

\* what login does on a match with roster user u
LoggedInAs(u) ==
    /\ returned' = [op |-> "login", threw |-> FALSE, value |-> TRUE]
    /\ isAuthenticated'
    /\ error' = nullMsg
    /\ IsRecordWithoutPassword(user', u)
    /\ user'.email = u.email

\* C4 as claimed: when a login completes whose refresh ended with a
\* roster that held a user with the credentials' email (ignoring case) and
\* password, the login returns true, sets isAuthenticated, clears error
\* and stores that user, with the roster's email casing and without the
\* password, as the session user.
LoginSucceedsOnRefreshedRoster ==
    [][\A c \in Resumed :
          (LoginCompletes(c) /\ c \in refreshMatched) =>
              \E u \in Universe : HasCredentials(u, c) /\ LoggedInAs(u)]_vars

\* C4 amended: when a login completes, every user of the roster as the
\* login finds it when it resumes (the roster its refresh ended with,
\* unless a step in between has replaced it) that has the credentials'
\* email (ignoring case) and password is the one the login returns true
\* for and stores, with the roster's email casing and without the
\* password, as the session user, with isAuthenticated set and error
\* cleared.
LoginStoresMatchingUser ==
    [][\A c \in Resumed :
          LoginCompletes(c) =>
              \A i \in DOMAIN users :
                  HasCredentials(users[i], c) => LoggedInAs(users[i])]_vars

\* C4 witness: a login whose refresh ended with a roster holding its user
\* has returned true and stored that user, who is not the first of the
\* roster and whose email differs in letter case from the credentials'
LoginStoresMatchingUserWitness ==
    /\ returned = [op |-> "login", threw |-> FALSE, value |-> TRUE]
    /\ \E c \in refreshMatched : c \notin calls /\ c.email = A_X_com
    /\ isAuthenticated
    /\ error = nullMsg
    /\ user # null
    /\ user.email = a_x_com
    /\ Len(users) = 3
    /\ users[3] = Ann

\* C5: a login that completes with no roster user having its email
\* (ignoring case) and password returns false, sets error to "Invalid email
\* or password" and leaves user and isAuthenticated as they were.
LoginFailure ==
    [][LoginNoMatchStep =>
          /\ returned' = [op |-> "login", threw |-> FALSE, value |-> FALSE]
          /\ error' = "Invalid email or password"
          /\ UNCHANGED <<user, isAuthenticated>>]_vars

\* C5 witness: a login has returned false against a roster that holds
\* users, and the session is anonymous
LoginFailureWitness ==
    /\ returned = [op |-> "login", threw |-> FALSE, value |-> FALSE]
    /\ error = "Invalid email or password"
    /\ users # <<>>
    /\ ~isAuthenticated
    /\ user = null

\* C6: getUsers returns one entry per roster user, in roster order, each
\* the user's record without the password field, and changes neither the
\* store, nor the persisted entry, nor the set of pending requests.
GetUsersStripsPasswords ==
    [][(returned'.op = "getUsers" /\ getUsers) =>
          /\ Len(returned'.list) = Len(users)
          /\ \A i \in DOMAIN users :
                /\ "password" \notin DOMAIN returned'.list[i]
                /\ IsRecordWithoutPassword(returned'.list[i], users[i])
          /\ UNCHANGED <<user, isAuthenticated, error, users, storage,
                         calls>>]_vars

\* C6 witness: getUsers has returned a list of two different entries
GetUsersStripsPasswordsWitness ==
    /\ returned.op = "getUsers"
    /\ Len(returned.list) = 2
    /\ returned.list[1] # returned.list[2]
    /\ \A i \in DOMAIN users : "password" \in DOMAIN users[i]

\* the indices of the roster us whose user does not have the id
KeptIndices(us, id) == {i \in DOMAIN us : us[i].id # id}

\* the k-th smallest element of the set S of numbers
Kth(S, k) == CHOOSE i \in S : Cardinality({j \in S : j < i}) = k - 1

\* C7: a removeMember whose DELETE gets a 2xx response leaves in the roster
\* exactly the users whose id is not the targeted one, in their original
\* order, sets error to null and leaves user and isAuthenticated alone.
RemoveMemberSuccess ==
    [][\A c \in Resumed, o \in DeleteOutcomes \ FailedDeleteOutcomes :
          removeMemberSettled(c, o) =>
              LET kept == KeptIndices(users, c.id)
              IN  /\ Len(users') = Cardinality(kept)
                  /\ \A k \in DOMAIN users' : users'[k] = users[Kth(kept, k)]
                  /\ error' = nullMsg
                  /\ UNCHANGED <<user, isAuthenticated>>
                  /\ returned' = [op |-> "removeMember", threw |-> FALSE]]_vars

\* C7 witness: a removeMember has succeeded on a roster of three, taken
\* out the user in the middle and left the two others, who differ, in the
\* order they had
RemoveMemberSuccessWitness ==
    /\ returned = [op |-> "removeMember", threw |-> FALSE]
    /\ \E h \in inFlight :
          /\ h.call \notin calls
          /\ h.call.id = "1"
          /\ h.roster = <<Cy, Ann, Bob>>
    /\ users = <<Cy, Bob>>
    /\ error = nullMsg
    /\ isAuthenticated

\* the response's data carries a message
CarriesMessage(data) ==
    data # null /\ "error" \in DOMAIN data /\ data.error # ""

\* C8 as claimed: a removeMember that fails, by a non-2xx response or a
\* network error, leaves the roster unchanged, sets error to the message
\* the response carries, or else to the default message, and throws an
\* error of that message.
RemoveMemberFailureDefault ==
    [][\A c \in Resumed, o \in FailedDeleteOutcomes :
          removeMemberSettled(c, o) =>
              /\ users' = users
              /\ error' = IF ~o.rejected /\ CarriesMessage(o.data)
                          THEN o.data.error
                          ELSE "Failed to remove member"
              /\ returned' = [op |-> "removeMember", threw |-> TRUE,
                              message |-> error']]_vars

\* C8 amended: a removeMember that fails leaves the roster unchanged and
\* throws an error whose message is the one it sets error to: after a
\* network error the message of the error fetch rejected with, after a
\* non-2xx response the non-empty message the response carries, or else
\* the default message.
RemoveMemberFailure ==
    [][\A c \in Resumed, o \in FailedDeleteOutcomes :
          removeMemberSettled(c, o) =>
              /\ users' = users
              /\ error' = IF o.rejected THEN NetworkErrorMessage
                          ELSE IF CarriesMessage(o.data) THEN o.data.error
                          ELSE "Failed to remove member"
              /\ returned' = [op |-> "removeMember", threw |-> TRUE,
                              message |-> error']]_vars

\* C8 witness: a removeMember has thrown the server's message, with users
\* still in the roster
RemoveMemberFailureWitness ==
    /\ returned = [op |-> "removeMember", threw |-> TRUE,
                   message |-> "Member not found"]
    /\ error = "Member not found"
    /\ users # <<>>

\* what C9 says of every step: fetchUsers, login, addMember and
\* updateMember never throw to their caller (login returns true or false),
\* and the step that handles a failure of theirs ends with error set: a
\* fetchUsers, called directly or by login, addMember or updateMember,
\* whose GET fails ends with error set and without throwing into its
\* caller, which goes on; a login that returns false, an addMember or
\* updateMember whose POST or PUT fails and an updateMember of an unknown
\* id complete with error set.  A failed removeMember sets error and
\* throws, and no other operation ever throws.
FailurePolicyStep ==
    /\ returned'.threw => returned'.op = "removeMember"
    /\ \A c \in Resumed :
         /\ c.pc = "RESUME" =>
               /\ returned'.op = c.op /\ ~returned'.threw
               /\ c.op = "login" =>
                     /\ returned'.value \in BOOLEAN
                     /\ ~returned'.value => error' # nullMsg
         /\ c.pc \in {"GET", "BODY"} =>
               \A o \in FailedGetOutcomes :
                   /\ fetchUsersSettled(c, o) =>
                         /\ returned' = [op |-> c.op, threw |-> FALSE]
                         /\ error' # nullMsg
                   /\ (\/ loginFetched(c, o)
                       \/ addMemberFetched(c, o)
                       \/ updateMemberFetched(c, o)) =>
                         /\ [c EXCEPT !.pc = "RESUME"] \in calls'
                         /\ returned' = returned
                         /\ error' # nullMsg
         /\ c.pc \in {"POST", "PUT"} =>
               \A o \in FailedMutateOutcomes :
                   (addMemberPosted(c, o) \/ updateMemberPut(c, o)) =>
                       /\ returned' = [op |-> c.op, threw |-> FALSE]
                       /\ error' # nullMsg
         /\ (c.op = "removeMember" /\ c.pc \in {"DELETE", "BODY"}) =>
               \A o \in FailedDeleteOutcomes :
                   removeMemberSettled(c, o) =>
                       /\ returned'.op = "removeMember" /\ returned'.threw
                       /\ error' # nullMsg
    /\ \A id \in Ids :
         (/\ calls' = calls
          /\ returned'.op = "updateMember"
          /\ \A i \in DOMAIN users : users[i].id # id) =>
             \A up \in Updates :
                 updateMember(id, up) =>
                     /\ returned' = [op |-> "updateMember", threw |-> FALSE]
                     /\ error' # nullMsg

\* C9 as claimed: none of fetchUsers, login, addMember and updateMember
\* throws, only a failed removeMember sets error and throws, and whenever
\* one of the four fails error is a message at the moment it completes,
\* also when what failed in an addMember or updateMember is the GET of its
\* roster refresh.
FailurePolicyAtCompletion ==
    [][/\ FailurePolicyStep
       /\ \A c \in Resumed :
            (c.pc = "RESUME" /\ c \in refreshFailed) =>
                error' # nullMsg]_vars

\* C9 amended: none of fetchUsers, login, addMember and updateMember
\* throws, only a failed removeMember sets error and throws, and whenever
\* one of the four fails error is a message at the end of the step that
\* handles the failure.  For an addMember or updateMember whose refresh
\* GET fails that is the step in which the refresh ends; the call
\* completes in a later step, which leaves error as it finds it.
FailurePolicy ==
    [][/\ FailurePolicyStep
       /\ \A c \in Resumed :
            (c.pc = "RESUME" /\ c.op \in {"addMember", "updateMember"}) =>
                error' = error]_vars

\* C9 witness: an updateMember whose refresh GET failed has completed,
\* thrown nothing, and the message of the refresh is still there
FailurePolicyWitness ==
    /\ returned = [op |-> "updateMember", threw |-> FALSE]
    /\ \E c \in refreshFailed : c \notin calls /\ c.op = "updateMember"
    /\ error = "Failed to fetch users"

\* C10: a 'dataUpdate' event of type "members" makes its payload the
\* roster and leaves user, isAuthenticated and error alone; an event of
\* another type leaves the whole state alone.
PushUpdate ==
    [][returned'.op = "dataUpdate" =>
          \A ev \in Events :
              dataUpdate(ev.type, ev.data) =>
                  IF ev.type = "members"
                  THEN /\ users' = ev.data
                       /\ UNCHANGED <<user, isAuthenticated, error, calls>>
                  ELSE UNCHANGED <<user, isAuthenticated, error, users,
                                   storage, calls>>]_vars

\* C10 witness: a "members" event has replaced the roster while the
\* session was authenticated and an error was set
PushUpdateWitness ==
    /\ returned = [op |-> "dataUpdate", threw |-> FALSE, type |-> "members"]
    /\ Len(users) = 2
    /\ isAuthenticated
    /\ error # nullMsg

-----------------------------------------------------------------------------
\* C11: when the GET of a fetchUsers call is answered 2xx with a JSON
\* body, that body becomes the whole roster; when it fails (network error,
\* non-2xx, or a body that is no JSON) the roster stays as it was and
\* error becomes "Failed to fetch users".  Either way user and
\* isAuthenticated stay as they were.
FetchUsersOutcome ==
    [][\A c \in Resumed :
          c.op = "fetchUsers" =>
              \A o \in GetOutcomes :
                  fetchUsersSettled(c, o) =>
                      /\ IF ~o.rejected /\ o.ok /\ o.parses
                         THEN users' = o.json
                         ELSE /\ users' = users
                              /\ error' = "Failed to fetch users"
                      /\ UNCHANGED <<user, isAuthenticated>>]_vars

\* C11 witness: a fetchUsers has failed in an authenticated session that
\* holds a roster, and the roster is still there
FetchUsersOutcomeWitness ==
    /\ returned.op = "fetchUsers"
    /\ error = "Failed to fetch users"
    /\ Len(users) = 2
    /\ isAuthenticated
    /\ user # null

\* C12: the roster is the payload processed last.  A "members" event
\* delivered while a fetchUsers call awaits its response makes its payload
\* the roster and leaves that call waiting; the response, when it then
\* arrives with a JSON body, makes the body the roster whatever the roster
\* holds by then, so nothing keeps the response of a GET issued before the
\* event from replacing the event's payload.
LastWriteWins ==
    [][/\ (/\ returned'.op = "dataUpdate"
           /\ \E c \in calls : c.op = "fetchUsers") =>
             \A r \in Rosters :
                 dataUpdate("members", r) =>
                     /\ users' = r
                     /\ calls' = calls
       /\ \A c \in Resumed :
            c.op = "fetchUsers" =>
                \A r \in Rosters :
                    fetchUsersSettled(c, [rejected |-> FALSE, ok |-> TRUE,
                                          parses |-> TRUE, json |-> r]) =>
                        users' = r]_vars

\* C12 witness: a "members" event has put a roster of two in place while
\* a fetchUsers call awaits its response
LastWriteWinsWitness ==
    /\ returned = [op |-> "dataUpdate", threw |-> FALSE, type |-> "members"]
    /\ \E c \in calls : c.op = "fetchUsers" /\ c.pc = "GET"
    /\ Len(users) = 2

\* a call of operation op takes a new position in this step
Starts(op) == \E d \in calls' \ calls : d.op = op

\* C13: an updateMember whose id no user of the roster has fails at once:
\* no request is issued (no call starts to wait, for a PUT or for a GET),
\* roster, user and isAuthenticated stay as they were, error becomes
\* "Failed to update member", and the call completes without throwing.
UpdateUnknownMember ==
    [][(returned'.op = "updateMember" \/ Starts("updateMember")) =>
          \A id \in Ids :
              (\A i \in DOMAIN users : users[i].id # id) =>
                  \A up \in Updates :
                      updateMember(id, up) =>
                          /\ calls' = calls
                          /\ UNCHANGED <<users, user, isAuthenticated>>
                          /\ error' = "Failed to update member"
                          /\ returned' = [op |-> "updateMember",
                                          threw |-> FALSE]]_vars

\* C13 witness: an updateMember has completed on an empty roster with its
\* message, in an authenticated session
UpdateUnknownMemberWitness ==
    /\ returned = [op |-> "updateMember", threw |-> FALSE]
    /\ error = "Failed to update member"
    /\ users = <<>>
    /\ calls = {}
    /\ isAuthenticated

\* the message addMember and updateMember leave when they fail
OwnMessage(op) ==
    IF op = "addMember" THEN "Failed to add member"
    ELSE "Failed to update member"

\* the first user of roster us with this id
FirstWithId(us, id) ==
    us[CHOOSE i \in DOMAIN us :
           /\ us[i].id = id
           /\ \A j \in 1..(i - 1) : us[j].id # id]

\* record b is record u with the fields of updates put over it
IsMerge(b, u, updates) ==
    /\ DOMAIN b = DOMAIN u \cup DOMAIN updates
    /\ \A f \in DOMAIN updates : b[f] = updates[f]
    /\ \A f \in DOMAIN u \ DOMAIN updates : b[f] = u[f]

\* C14: addMember and updateMember issue the GET of their roster refresh
\* exactly when their POST or PUT is answered 2xx, and in the step that
\* processes that answer, not before; the PUT carries the roster's record
\* of that id with the updates put over it.  When the POST or PUT fails
\* (network error or non-2xx) no GET is issued, the roster stays as it was
\* and error becomes the operation's own message.
RefreshAfterMutation ==
    [][/\ \A c \in Resumed :
            c.pc \in {"POST", "PUT"} =>
                \A o \in MutateOutcomes :
                    (addMemberPosted(c, o) \/ updateMemberPut(c, o)) =>
                        IF ~o.rejected /\ o.ok
                        THEN /\ calls' \ calls =
                                   {[op |-> c.op, pc |-> "GET",
                                     slot |-> c.slot]}
                             /\ UNCHANGED <<users, error>>
                        ELSE /\ calls' \ calls = {}
                             /\ users' = users
                             /\ error' = OwnMessage(c.op)
       /\ \A d \in calls' \ calls :
            /\ (d.pc = "GET" /\ d.op \in {"addMember", "updateMember"}) =>
                  \E c \in Resumed :
                      /\ c.op = d.op
                      /\ c.pc \in {"POST", "PUT"}
            /\ d.pc = "PUT" =>
                  /\ \E i \in DOMAIN users : users[i].id = d.id
                  /\ \E up \in Updates :
                        IsMerge(d.body, FirstWithId(users, d.id), up)]_vars

\* C14 witness: an updateMember awaits the GET of its refresh, the roster
\* still as it was before the PUT
RefreshAfterMutationWitness ==
    /\ \E c \in calls : c.op = "updateMember" /\ c.pc = "GET"
    /\ Len(users) = 2
    /\ \A i \in DOMAIN users : users[i] \in Universe

\* C15 as claimed: the body of every POST that addMember issues carries
\* the role "member", whatever role the caller's argument carries.
AddMemberForcesRole ==
    \A c \in calls :
        (c.op = "addMember" /\ c.pc = "POST") => c.body.role = "member"

\* C16: in every state the session user, when there is one, has no
\* password field, and the persisted entry holds no password field (its
\* state has the fields user and isAuthenticated only, and its user has
\* no password field), while the records of the roster do carry passwords.
NoPasswordInSession ==
    /\ user # null => "password" \notin DOMAIN user
    /\ storage # null =>
          /\ DOMAIN storage.state \subseteq {"user", "isAuthenticated"}
          /\ storage.state.user # null =>
                "password" \notin DOMAIN storage.state.user
    /\ \A i \in DOMAIN users : "password" \in DOMAIN users[i]

\* C16 witness: a login has stored a session user, persisted, taken from
\* a roster whose records carry passwords
NoPasswordInSessionWitness ==
    /\ returned = [op |-> "login", threw |-> FALSE, value |-> TRUE]
    /\ user # null
    /\ storage # null
    /\ storage.state.user = user
    /\ \E i \in DOMAIN users :
          /\ users[i].id = user.id
          /\ users[i].password = "p1"

\* C17 as claimed: a logout is not undone by a login in flight.  After a
\* logout isAuthenticated goes from false to true only when a login call
\* completes that was not awaiting its response when logout last ran.
LogoutNotUndone ==
    [][(~isAuthenticated /\ isAuthenticated') =>
          \E c \in Resumed :
              /\ LoginCompletes(c)
              /\ c \notin pendingAtLogout]_vars

\* C18: when the GET of login's roster refresh fails, the roster stays as
\* it was and login goes on to search it.  When login then resumes, if a
\* user of the roster has the credentials it returns true with
\* isAuthenticated true and error null, and if none has it returns false
\* with error "Invalid email or password"; it never completes with error
\* "Failed to fetch users" or "Login failed. Please try again.".
LoginOnCachedRoster ==
    [][\A c \in Resumed :
          c.op = "login" =>
              /\ c.pc \in {"GET", "BODY"} =>
                    \A o \in FailedGetOutcomes :
                        loginFetched(c, o) =>
                            /\ users' = users
                            /\ [c EXCEPT !.pc = "RESUME"] \in calls'
                            /\ UNCHANGED <<user, isAuthenticated, returned>>
              /\ c.pc = "RESUME" =>
                    /\ users' = users
                    /\ IF \E i \in DOMAIN users :
                              HasCredentials(users[i], c)
                       THEN /\ returned'.value = TRUE
                            /\ isAuthenticated'
                            /\ error' = nullMsg
                       ELSE /\ returned'.value = FALSE
                            /\ error' = "Invalid email or password"
                            /\ UNCHANGED <<user, isAuthenticated>>
                    /\ error' \notin {"Failed to fetch users",
                                      "Login failed. Please try again."}
                    /\ ~returned'.threw]_vars

\* C18 witness: the refresh of a login has failed and left its message,
\* and the login is about to resume on a roster, as it was, that holds a
\* user with its credentials
LoginOnCachedRosterWitness ==
    /\ error = "Failed to fetch users"
    /\ \E c \in calls :
          /\ c.op = "login" /\ c.pc = "RESUME"
          /\ \E i \in DOMAIN users : HasCredentials(users[i], c)

\* a removeMember call completes without throwing
RemoveMemberSuccessStep ==
    \E c \in Resumed :
        c.op = "removeMember" /\ c.pc = "BODY" /\ ~returned'.threw

\* C19: error goes back to null only in a clearError step, a logout
\* step, a step where a login completes with a match, or a step where a
\* removeMember completes successfully.  A fetchUsers, addMember or
\* updateMember step in which the network call succeeds leaves error as
\* it was, so an error set earlier stays.
ErrorResetOnlyBy ==
    [][/\ (error # nullMsg /\ error' = nullMsg) =>
             \/ clearError
             \/ logout
             \/ LoginMatchStep
             \/ RemoveMemberSuccessStep
       /\ \A c \in Resumed :
             c.op \in {"fetchUsers", "addMember", "updateMember"} =>
                 /\ c.pc = "RESUME" => error' = error
                 /\ \A o \in GetOutcomes \ FailedGetOutcomes :
                       (\/ fetchUsersSettled(c, o)
                        \/ addMemberFetched(c, o)
                        \/ updateMemberFetched(c, o)) => error' = error
                 /\ \A o \in MutateOutcomes \ FailedMutateOutcomes :
                       (addMemberPosted(c, o) \/ updateMemberPut(c, o)) =>
                           error' = error]_vars

\* C19 witness: a fetchUsers has completed and the error that an earlier
\* updateMember left is still there
ErrorResetOnlyByWitness ==
    /\ returned = [op |-> "fetchUsers", threw |-> FALSE]
    /\ error = "Failed to update member"
    /\ users # <<>>

\* roster us without the users of this id, from its first user on
RECURSIVE Without(_, _)
Without(us, id) ==
    IF us = <<>> THEN <<>>
    ELSE IF Head(us).id = id THEN Without(Tail(us), id)
    ELSE <<Head(us)>> \o Without(Tail(us), id)

\* C20: removeMember removes from the roster that is current when the
\* answer to its DELETE is processed.  A step that is not the end of a
\* removeMember, so also one in which a "members" event, setUsers or a
\* GET response puts a roster R in place, leaves the calls that await
\* their DELETE waiting; the successful answer makes the roster the
\* current one without the users of the id, and when R was put in place
\* while the DELETE was in flight that is R without the users of the id,
\* in R's order, whatever the roster was when removeMember was called.
RemovalFromCurrentRoster ==
    [][/\ \A c \in calls :
            (c.op = "removeMember" /\ returned'.op # "removeMember") =>
                \E d \in calls' :
                    /\ d.op = "removeMember"
                    /\ d.slot = c.slot
                    /\ d.id = c.id
       /\ \A c \in Resumed :
            (c.op = "removeMember" /\ c.pc = "BODY" /\ ~returned'.threw) =>
                /\ users' = Without(users, c.id)
                /\ \A h \in inFlight :
                      h.call = c => users' = Without(h.roster, c.id)]_vars

\* C20 witness: while a removeMember awaited its DELETE a GET response
\* replaced the roster with one of three users, and the removeMember has
\* then succeeded and left the two others in the order of that roster
RemovalFromCurrentRosterWitness ==
    /\ returned = [op |-> "removeMember", threw |-> FALSE]
    /\ \E h \in inFlight :
          /\ h.call \notin calls
          /\ h.call.id = "1"
          /\ h.by = "response"
          /\ h.roster = <<Bob, Cy, Ann>>
    /\ users = <<Bob, Cy>>
    /\ ~isAuthenticated
    /\ error = nullMsg
====
